---------------------------- MODULE Spec2Model ----------------------------
(***************************************************************************)
(* Grid-based patch sampler of NiftyNet (engine/grid_sampler.py).          *)
(*                                                                         *)
(* Python sequences are 0-indexed, TLA+ sequences 1-indexed: an element    *)
(* x[i] of the source is x[i + 1] here.  spatial_rank may be fractional    *)
(* (1.5, 2.5): it is carried doubled, spatial_rank2 = 2 * spatial_rank, so *)
(* that floor, ceil and "spatial_rank * 2" stay integer arithmetic.        *)
(***************************************************************************)
EXTENDS Integers, Sequences, FiniteSets, TLC

VARIABLES
    args,               \* arguments of a direct call of a module function
    ret,                \* what that call returned or raised
    sampler,            \* GridSampler: grid_size, patch.spatial_rank (doubled),
                        \* patch.image_size
    batch_size,         \* the argument of layer_op
    volume_loader,      \* the Volume Source: its volumes and its cursor
    pc,                 \* where the generator layer_op stands
    img,                \* the volume pulled last (line 87)
    idx,                \* its identifier (line 87)
    locations,          \* result of generate_grid_coordinates (line 109)
    n_patches,          \* line 113
    extend_n_patches,   \* line 116
    i,                  \* the index of the for loop (line 124)
    patch,              \* the Patch Sink: what set_data received last
    set_data_calls,     \* number of calls of patch.set_data
    emitted,            \* the patches yielded so far, as the consumer saw them
    raised              \* the exception that ended the generator, if any

fnvars == <<args, ret>>

samplervars ==
    <<sampler, batch_size, volume_loader, pc, img, idx, locations, n_patches,
      extend_n_patches, i, patch, set_data_calls, emitted, raised>>

vars == <<args, ret, sampler, batch_size, volume_loader, pc, img, idx, locations,
          n_patches, extend_n_patches, i, patch, set_data_calls, emitted, raised>>

(***************************************************************************)
(* Bounds of the inputs drawn for the direct calls.                        *)
(***************************************************************************)
MaxEnding == 7      \* `ending` of _enumerate_step_points ranges over 0..MaxEnding
MaxWindow == 3      \* win_size ranges over 1..MaxWindow
MaxStep == 3        \* step_size / grid_size range up to MaxStep
MaxRank2 == 5       \* 2 * spatial_rank ranges over 0..MaxRank2
MaxExtent == 3      \* entries of img_size range over 0..MaxExtent

(***************************************************************************)
(* Bounds of the configurations and Volume Sources of the sampler.         *)
(***************************************************************************)
MaxVolumes == 2     \* the Volume Source holds 0..MaxVolumes volumes
MaxImageSize == 2   \* spatial extent of a volume, 1..MaxImageSize
MaxPatchSize == 2   \* patch.image_size ranges over 1..MaxPatchSize
MaxGridSize == 1    \* grid_size ranges over 0..MaxGridSize
MaxBatchSize == 3   \* batch_size ranges over 1..MaxBatchSize
MaxPatchRank2 == 3  \* 2 * patch.spatial_rank ranges over 2..MaxPatchRank2

Max(a, b) == IF a >= b THEN a ELSE b

Min(a, b) == IF a <= b THEN a ELSE b

Range(s) == {s[k] : k \in 1..Len(s)}

RECURSIVE Prod(_)
Prod(s) == IF s = <<>> THEN 1 ELSE Head(s) * Prod(Tail(s))

(***************************************************************************)
(* np.unique(list).flatten(): the distinct values in ascending order.      *)
(***************************************************************************)
RECURSIVE SortedSeq(_)
SortedSeq(S) ==
    IF S = {} THEN <<>>
    ELSE LET m == CHOOSE x \in S : \A y \in S : x <= y
         IN  <<m>> \o SortedSeq(S \ {m})

np_unique(list) == SortedSeq(Range(list))

(***************************************************************************)
(* _enumerate_step_points: the while loop of lines 56-58.  It terminates   *)
(* only for step_size > 0; every caller passes grid_size > 0 or 1.         *)
(***************************************************************************)
RECURSIVE WhileLoop(_, _, _, _, _)
WhileLoop(sampling_point_set, starting, ending, win_size, step_size) ==
    IF starting + win_size <= ending
    THEN WhileLoop(Append(sampling_point_set, starting),
                   starting + step_size, ending, win_size, step_size)
    ELSE sampling_point_set

\* the forced final point left at the origin
ForcedPoint_AtOrigin(ending, win_size) == 0

ForcedPoint(ending, win_size) == Max(ending - win_size, 0)

\* the points of the loop alone, line 59 left out
enumerate_step_points_LoopOnly(starting, ending, win_size, step_size) ==
    np_unique(WhileLoop(<<>>, starting, ending, win_size, step_size))

\* the forced point recorded only when a whole window fits
enumerate_step_points_ForcedOnlyIfFits(starting, ending, win_size, step_size) ==
    LET looped == WhileLoop(<<>>, starting, ending, win_size, step_size)
    IN  IF ending - win_size >= 0
        THEN np_unique(Append(looped, ForcedPoint(ending, win_size)))
        ELSE np_unique(looped)

enumerate_step_points(starting, ending, win_size, step_size) ==
    LET looped == WhileLoop(<<>>, starting, ending, win_size, step_size)
        sampling_point_set == Append(looped, ForcedPoint(ending, win_size))
    IN  np_unique(sampling_point_set)

(***************************************************************************)
(* np.meshgrid of the step sets with the default indexing = 'xy', stacked  *)
(* by np.asarray and flattened by reshape((num_location_types, -1)) in C   *)
(* order.  With two or more inputs the first two axes are swapped: input   *)
(* k lies along axis AxisOf(k).  MeshValue is starting_[k, f], f counted   *)
(* from 0.                                                                 *)
(***************************************************************************)
AxisOf(k, n) ==
    IF n >= 2 /\ k = 1 THEN 2
    ELSE IF n >= 2 /\ k = 2 THEN 1
    ELSE k

MeshShape(steps) ==
    [a \in 1..Len(steps) |-> Len(steps[AxisOf(a, Len(steps))])]

\* a stride that counts the axis itself
Stride_Inclusive(shape, a) == Prod(SubSeq(shape, a, Len(shape)))

Stride(shape, a) == Prod(SubSeq(shape, a + 1, Len(shape)))

MeshValue(steps, k, f) ==
    LET shape == MeshShape(steps)
        a == AxisOf(k, Len(steps))
    IN  steps[k][((f \div Stride(shape, a)) % shape[a]) + 1]

\* the end columns offset by num_windows instead of num_location_types
CoordinateRow_EndAtFloor(steps, f, spatial_rank2, win_size) ==
    LET num_windows == spatial_rank2 \div 2
    IN  [c \in 1..spatial_rank2 |->
            IF num_windows * 2 < spatial_rank2 /\ c = num_windows + 1
            THEN MeshValue(steps, num_windows + 1, f)
            ELSE IF c > num_windows /\ c - num_windows <= num_windows
            THEN MeshValue(steps, c - num_windows, f) + win_size
            ELSE IF c <= num_windows
            THEN MeshValue(steps, c, f)
            ELSE 0]

(***************************************************************************)
(* One row of all_coordinates (lines 36-42): zeros, then the assignments   *)
(* of the loop, then the auxiliary column, later assignments winning.      *)
(***************************************************************************)
CoordinateRow(steps, f, spatial_rank2, win_size) ==
    LET num_windows == spatial_rank2 \div 2
        num_location_types == (spatial_rank2 + 1) \div 2
    IN  [c \in 1..spatial_rank2 |->
            IF num_windows * 2 < spatial_rank2 /\ c = num_windows + 1
            THEN MeshValue(steps, num_windows + 1, f)
            ELSE IF c > num_location_types /\ c - num_location_types <= num_windows
            THEN MeshValue(steps, c - num_location_types, f) + win_size
            ELSE IF c <= num_windows
            THEN MeshValue(steps, c, f)
            ELSE 0]

\* the auxiliary dimension enumerated with the configured window and step
StepsAlongEach_AuxWindowed(spatial_rank2, img_size, win_size, grid_size) ==
    LET num_windows == spatial_rank2 \div 2
        num_location_types == (spatial_rank2 + 1) \div 2
    IN  [k \in 1..num_location_types |->
            enumerate_step_points(0, img_size[k], win_size, grid_size)]

(***************************************************************************)
(* The per-dimension step-point sets of lines 24-31.                       *)
(***************************************************************************)
StepsAlongEach(spatial_rank2, img_size, win_size, grid_size) ==
    LET num_windows == spatial_rank2 \div 2
        num_location_types == (spatial_rank2 + 1) \div 2
    IN  [k \in 1..num_location_types |->
            IF k <= num_windows
            THEN enumerate_step_points(0, img_size[k], win_size, grid_size)
            ELSE enumerate_step_points(0, img_size[num_windows + 1], 1, 1)]

\* the assertion taken over the auxiliary dimension as well
ExtentAssertion_AllDims(spatial_rank2, img_size, win_size) ==
    \A d \in 1..Min((spatial_rank2 + 1) \div 2, Len(img_size)) :
        img_size[d] >= win_size

ExtentAssertion(spatial_rank2, img_size, win_size) ==
    \A d \in 1..Min(spatial_rank2 \div 2, Len(img_size)) : img_size[d] >= win_size

NoneResult == [kind |-> "None", value |-> <<>>]

Raised(exception) == [kind |-> exception, value |-> <<>>]

(***************************************************************************)
(* Lines 33-43: the mesh grid of the step sets, one row per column of the  *)
(* flattened mesh.  The step sets are bound once, as the element of a      *)
(* one-element set, so that they are computed a single time.               *)
(***************************************************************************)
AllCoordinates(steps_along_each, spatial_rank2, win_size) ==
    CHOOSE all_coordinates \in
        {[kind |-> "ndarray",
          value |-> [f \in 1..Prod(MeshShape(steps)) |->
                        CoordinateRow(steps, f - 1, spatial_rank2, win_size)]] :
            steps \in {steps_along_each}} : TRUE

\* the assertion of line 21 evaluated before the test of grid_size
generate_grid_coordinates_AssertFirst(spatial_rank2, img_size, win_size, grid_size) ==
    IF ~ExtentAssertion(spatial_rank2, img_size, win_size)
    THEN Raised("AssertionError")
    ELSE IF grid_size <= 0 THEN NoneResult
    ELSE IF spatial_rank2 = 0 THEN Raised("ValueError")
    ELSE AllCoordinates(StepsAlongEach(spatial_rank2, img_size, win_size, grid_size),
                        spatial_rank2, win_size)

(***************************************************************************)
(* generate_grid_coordinates.  The result is None, an ndarray of rows, or  *)
(* the exception the call ends with: the assertion of line 21, or the      *)
(* ValueError of reshape((0, -1)) on the empty mesh of spatial_rank 0.     *)
(***************************************************************************)
generate_grid_coordinates(spatial_rank2, img_size, win_size, grid_size) ==
    IF grid_size <= 0 THEN NoneResult
    ELSE IF ~ExtentAssertion(spatial_rank2, img_size, win_size)
    THEN Raised("AssertionError")
    ELSE IF spatial_rank2 = 0 THEN Raised("ValueError")
    ELSE AllCoordinates(StepsAlongEach(spatial_rank2, img_size, win_size, grid_size),
                        spatial_rank2, win_size)

(***************************************************************************)
(* Direct calls of the two module-level functions: the arguments are drawn *)
(* in the initial state and the call is applied to them once.              *)
(***************************************************************************)
Pending == [kind |-> "pending", value |-> <<>>]

NoVolume == [size |-> 0, ndim |-> 0]

NoPatch == [idx |-> 0, loc |-> <<>>]

\* no sampler has been constructed
NoSampler ==
    /\ sampler = [spatial_rank2 |-> 0, image_size |-> 0, grid_size |-> 0]
    /\ batch_size = 0
    /\ volume_loader = [volumes |-> <<>>, cursor |-> 0]
    /\ pc = "none"
    /\ img = NoVolume
    /\ idx = 0
    /\ locations = NoneResult
    /\ n_patches = 0
    /\ extend_n_patches = 0
    /\ i = 0
    /\ patch = NoPatch
    /\ set_data_calls = 0
    /\ emitted = <<>>
    /\ raised = "none"

ImgSizes == [1..((MaxRank2 + 1) \div 2) -> 0..MaxExtent]

EnumerateCalls ==
    [fn : {"_enumerate_step_points"}, spatial_rank2 : {0},
     img_size : {<<ending>> : ending \in 0..MaxEnding},
     win_size : 1..MaxWindow, grid_size : 1..MaxStep]

GenerateCalls ==
    [fn : {"generate_grid_coordinates"}, spatial_rank2 : 0..MaxRank2,
     img_size : ImgSizes, win_size : 1..MaxWindow, grid_size : (-1)..MaxStep]

FnInit ==
    /\ args \in EnumerateCalls \cup GenerateCalls
    /\ ret = Pending
    /\ NoSampler

CallEnumerateStepPoints ==
    /\ args.fn = "_enumerate_step_points"
    /\ ret = Pending
    /\ ret' = [kind |-> "points",
               value |-> enumerate_step_points(0, args.img_size[1],
                                               args.win_size, args.grid_size)]
    /\ UNCHANGED args
    /\ UNCHANGED samplervars

CallGenerateGridCoordinates ==
    /\ args.fn = "generate_grid_coordinates"
    /\ ret = Pending
    /\ ret' = generate_grid_coordinates(args.spatial_rank2, args.img_size,
                                        args.win_size, args.grid_size)
    /\ UNCHANGED args
    /\ UNCHANGED samplervars

FnNext ==
    \/ CallEnumerateStepPoints
    \/ CallGenerateGridCoordinates

FnSpec == FnInit /\ [][FnNext]_vars

(***************************************************************************)
(* The collaborators of GridSampler.  The Volume Source reports whether a  *)
(* volume remains and hands out the next one, advancing its cursor; a call *)
(* with no volume left fails.  A volume is told by the extent of its       *)
(* spatial dimensions and by the rank of its image data after shape        *)
(* reconciliation; its identifier is its position in the source.           *)
(***************************************************************************)
Volumes == [size : 1..MaxImageSize, ndim : {4, 5}]

RECURSIVE SeqsUpTo(_, _)
SeqsUpTo(S, n) ==
    IF n = 0 THEN {<<>>}
    ELSE LET shorter == SeqsUpTo(S, n - 1)
         IN  shorter \cup {Append(q, x) : q \in {t \in shorter : Len(t) = n - 1}, x \in S}

has_next(loader) == loader.cursor < Len(loader.volumes)

volume_loader_call(loader) ==
    IF has_next(loader)
    THEN [failed |-> FALSE,
          img |-> loader.volumes[loader.cursor + 1],
          idx |-> loader.cursor + 1,
          loader |-> [loader EXCEPT !.cursor = loader.cursor + 1]]
    ELSE [failed |-> TRUE, img |-> NoVolume, idx |-> 0, loader |-> loader]

\* img.data.shape after reconciliation: three spatial extents, then modalities
match_volume_shape_to_patch_definition(volume) ==
    [d \in 1..volume.ndim |-> IF d <= 3 THEN volume.size ELSE 1]

(***************************************************************************)
(* GridSampler.__init__ followed by the call layer_op(batch_size), which   *)
(* creates the generator without running any of its body.                  *)
(***************************************************************************)
Init ==
    /\ args = [fn |-> "none", spatial_rank2 |-> 0, img_size |-> <<>>,
               win_size |-> 0, grid_size |-> 0]
    /\ ret = Pending
    /\ sampler \in [spatial_rank2 : 2..MaxPatchRank2,
                    image_size : 1..MaxPatchSize,
                    grid_size : 0..MaxGridSize]
    /\ batch_size \in 1..MaxBatchSize
    /\ volume_loader \in [volumes : SeqsUpTo(Volumes, MaxVolumes), cursor : {0}]
    /\ pc = "created"
    /\ img = NoVolume
    /\ idx = 0
    /\ locations = NoneResult
    /\ n_patches = 0
    /\ extend_n_patches = 0
    /\ i = 0
    /\ patch = NoPatch
    /\ set_data_calls = 0
    /\ emitted = <<>>
    /\ raised = "none"

\* the first next() of the consumer enters the body of layer_op
Start ==
    /\ pc = "created"
    /\ pc' = "while"
    /\ UNCHANGED <<args, ret, sampler, batch_size, volume_loader, img, idx,
                   locations, n_patches, extend_n_patches, i, patch,
                   set_data_calls, emitted, raised>>

\* the loop always entered, whatever has_next reports
WhileBranch_DoWhile(more) == "pull"

\* line 86: the loop goes on while the Volume Source has a volume
WhileBranch(more) == IF more THEN "pull" ELSE "exhausted"

WhileHasNext ==
    /\ pc = "while"
    /\ pc' = WhileBranch(has_next(volume_loader))
    /\ UNCHANGED <<args, ret, sampler, batch_size, volume_loader, img, idx,
                   locations, n_patches, extend_n_patches, i, patch,
                   set_data_calls, emitted, raised>>

\* line 87
PullVolume ==
    /\ pc = "pull"
    /\ LET next == volume_loader_call(volume_loader)
       IN  IF next.failed
           THEN /\ pc' = "raised"
                /\ raised' = "VolumeSourceError"
                /\ UNCHANGED <<volume_loader, img, idx>>
           ELSE /\ pc' = "match"
                /\ volume_loader' = next.loader
                /\ img' = next.img
                /\ idx' = next.idx
                /\ UNCHANGED raised
    /\ UNCHANGED <<args, ret, sampler, batch_size, locations, n_patches,
                   extend_n_patches, i, patch, set_data_calls, emitted>>

\* a volume of rank 5 passed over instead of rejected
RankCheck_Skip(ndim) == IF ndim = 5 THEN "while" ELSE "generate"

\* lines 95-96
RankCheck(ndim) == IF ndim = 5 THEN "raised" ELSE "generate"

\* lines 92-106
MatchShape ==
    /\ pc = "match"
    /\ pc' = RankCheck(Len(match_volume_shape_to_patch_definition(img)))
    /\ raised' = IF pc' = "raised" THEN "NotImplementedError" ELSE raised
    /\ UNCHANGED <<args, ret, sampler, batch_size, volume_loader, img, idx,
                   locations, n_patches, extend_n_patches, i, patch,
                   set_data_calls, emitted>>

\* padding added also when n_patches is a multiple of batch_size
ExtraPatches_Always(n, b) == b - (n % b)

\* lines 114-115
ExtraPatches(n, b) == IF n % b # 0 THEN b - (n % b) ELSE 0

\* lines 109-116; locations.shape of None is an AttributeError
GenerateLocations ==
    /\ pc = "generate"
    /\ LET result == generate_grid_coordinates(
                         sampler.spatial_rank2,
                         match_volume_shape_to_patch_definition(img),
                         sampler.image_size, sampler.grid_size)
       IN  IF result.kind = "ndarray"
           THEN /\ locations' = result
                /\ n_patches' = Len(result.value)
                /\ extend_n_patches' =
                       Len(result.value) + ExtraPatches(Len(result.value), batch_size)
                /\ i' = 0
                /\ pc' = "for"
                /\ UNCHANGED raised
           ELSE /\ pc' = "raised"
                /\ raised' = IF result.kind = "None" THEN "AttributeError"
                             ELSE result.kind
                /\ locations' = IF result.kind = "None" THEN result ELSE locations
                /\ UNCHANGED <<n_patches, extend_n_patches, i>>
    /\ UNCHANGED <<args, ret, sampler, batch_size, volume_loader, img, idx,
                   patch, set_data_calls, emitted>>

\* the last index of the range left out
RangeHasNext_OneShort(k, n) == k < n - 1

\* line 124: range(0, extend_n_patches) has an index left
RangeHasNext(k, n) == k < n

\* the last coordinate repeated instead of wrapping around
SelectLocation_Clamp(locs, k, n) == locs[Min(k, n - 1) + 1]

\* line 125: locations[i % n_patches]
SelectLocation(locs, k, n) == locs[(k % n) + 1]

\* lines 124-126: one more index, and the Patch Sink is populated
ForBody ==
    /\ pc = "for"
    /\ RangeHasNext(i, extend_n_patches)
    /\ patch' = [idx |-> idx, loc |-> SelectLocation(locations.value, i, n_patches)]
    /\ set_data_calls' = set_data_calls + 1
    /\ pc' = "yield"
    /\ UNCHANGED <<args, ret, sampler, batch_size, volume_loader, img, idx,
                   locations, n_patches, extend_n_patches, i, emitted, raised>>

\* line 124: the range is used up, back to line 86
ForExit ==
    /\ pc = "for"
    /\ ~RangeHasNext(i, extend_n_patches)
    /\ pc' = "while"
    /\ UNCHANGED <<args, ret, sampler, batch_size, volume_loader, img, idx,
                   locations, n_patches, extend_n_patches, i, patch,
                   set_data_calls, emitted, raised>>

\* line 127: the generator suspends and hands self.patch to the consumer
Yield ==
    /\ pc = "yield"
    /\ emitted' = Append(emitted, patch)
    /\ pc' = "yielded"
    /\ UNCHANGED <<args, ret, sampler, batch_size, volume_loader, img, idx,
                   locations, n_patches, extend_n_patches, i, patch,
                   set_data_calls, raised>>

\* a further next() of the consumer resumes the for loop after the yield
Resume ==
    /\ pc = "yielded"
    /\ i' = i + 1
    /\ pc' = "for"
    /\ UNCHANGED <<args, ret, sampler, batch_size, volume_loader, img, idx,
                   locations, n_patches, extend_n_patches, patch,
                   set_data_calls, emitted, raised>>

Next ==
    \/ Start
    \/ WhileHasNext
    \/ PullVolume
    \/ MatchShape
    \/ GenerateLocations
    \/ ForBody
    \/ ForExit
    \/ Yield
    \/ Resume

Spec == Init /\ [][Next]_vars

\* a consumer that keeps pulling: the generator always takes its next step
LiveSpec == Init /\ [][Next]_vars /\ WF_vars(Next)

(***************************************************************************)
(* Vocabulary of the properties of the two functions.                      *)
(***************************************************************************)
IsEnumerateReturn == args.fn = "_enumerate_step_points" /\ ret.kind = "points"

IsGenerateReturn == args.fn = "generate_grid_coordinates" /\ ret # Pending

NumWindowedDims == args.spatial_rank2 \div 2

NumCoordinateDims == (args.spatial_rank2 + 1) \div 2

HasAuxiliaryDim == NumWindowedDims < NumCoordinateDims

\* the positions covered by the windows [c, c + windowSize) of the points
Covered(points, windowSize) ==
    UNION {c..(c + windowSize - 1) : c \in points}

\* the windows of dimension d (counted from 1) in the returned rows
RowWindows(d) ==
    UNION {ret.value[r][d]..(ret.value[r][d + NumCoordinateDims] - 1) :
              r \in 1..Len(ret.value)}

SomeWindowTooLarge ==
    \E d \in 1..NumWindowedDims : args.img_size[d] < args.win_size

ValidGenerateInput ==
    /\ args.fn = "generate_grid_coordinates"
    /\ args.grid_size > 0
    /\ args.spatial_rank2 >= 1
    /\ ~SomeWindowTooLarge

(***************************************************************************)
(* C1 as stated: for extent >= windowSize >= 1 and every gridSize > 0 the  *)
(* windows of the returned step points cover [0, extent) exactly.          *)
(***************************************************************************)
C1_CoverageAnyGridSize ==
    (IsEnumerateReturn /\ args.img_size[1] >= args.win_size)
        => Covered(Range(ret.value), args.win_size) = 0..(args.img_size[1] - 1)

(***************************************************************************)
(* C1 amended: for extent >= windowSize >= 1 the windows never leave       *)
(* [0, extent), and they cover [0, extent) without gaps whenever           *)
(* 1 <= gridSize <= windowSize; the same holds of the windows of every     *)
(* windowed dimension in the rows of generate_grid_coordinates.            *)
(***************************************************************************)
C1_CoverageUpToWindowSize ==
    /\ (IsEnumerateReturn /\ args.img_size[1] >= args.win_size)
        => /\ Covered(Range(ret.value), args.win_size) \subseteq 0..(args.img_size[1] - 1)
           /\ args.grid_size <= args.win_size
                => Covered(Range(ret.value), args.win_size) = 0..(args.img_size[1] - 1)
    /\ (IsGenerateReturn /\ ret.kind = "ndarray")
        => \A d \in 1..NumWindowedDims :
              /\ RowWindows(d) \subseteq 0..(args.img_size[d] - 1)
              /\ args.grid_size <= args.win_size
                    => RowWindows(d) = 0..(args.img_size[d] - 1)

\* a step that does not divide extent - windowSize, and the tail is covered
C1_Witness ==
    /\ IsEnumerateReturn
    /\ args.img_size[1] > args.win_size
    /\ args.grid_size <= args.win_size
    /\ (args.img_size[1] - args.win_size) % args.grid_size # 0
    /\ Covered(Range(ret.value), args.win_size) = 0..(args.img_size[1] - 1)

(***************************************************************************)
(* C2: the returned step points contain max(end - windowSize, 0); when     *)
(* end >= windowSize some returned point p has p + windowSize = end.       *)
(***************************************************************************)
C2_BoundaryInclusion ==
    IsEnumerateReturn =>
        /\ (IF args.img_size[1] - args.win_size >= 0
            THEN args.img_size[1] - args.win_size ELSE 0) \in Range(ret.value)
        /\ args.img_size[1] >= args.win_size
              => \E k \in 1..Len(ret.value) :
                    ret.value[k] + args.win_size = args.img_size[1]

\* the boundary point is one the loop alone does not reach
C2_Witness ==
    /\ IsEnumerateReturn
    /\ args.img_size[1] >= args.win_size
    /\ (args.img_size[1] - args.win_size) % args.grid_size # 0
    /\ (args.img_size[1] - args.win_size) \in Range(ret.value)

(***************************************************************************)
(* C5: with gridSize <= 0 generate_grid_coordinates returns None whatever  *)
(* the other inputs are; the extent assertion does not fire.               *)
(***************************************************************************)
C5_DisabledSampling ==
    (IsGenerateReturn /\ args.grid_size <= 0) => ret = NoneResult

\* disabled sampling on an input whose window is larger than an extent
C5_Witness ==
    /\ IsGenerateReturn
    /\ args.grid_size <= 0
    /\ SomeWindowTooLarge
    /\ ret.kind = "None"

(***************************************************************************)
(* C6: with gridSize > 0, a windowed dimension with extent < windowSize    *)
(* ends the call with the assertion error and no coordinates; when every   *)
(* windowed extent is >= windowSize the assertion does not fire, whatever  *)
(* the extent of the auxiliary dimension.                                  *)
(***************************************************************************)
C6_WindowLargerThanExtentIsFatal ==
    (IsGenerateReturn /\ args.grid_size > 0) =>
        /\ SomeWindowTooLarge => ret = Raised("AssertionError")
        /\ ~SomeWindowTooLarge => ret.kind # "AssertionError"

\* the assertion fired
C6_Witness ==
    /\ IsGenerateReturn
    /\ args.grid_size > 0
    /\ SomeWindowTooLarge
    /\ ret.kind = "AssertionError"

\* the auxiliary extent is below windowSize and the assertion did not fire
C6_AuxiliaryWitness ==
    /\ IsGenerateReturn
    /\ args.grid_size > 0
    /\ HasAuxiliaryDim
    /\ args.img_size[NumWindowedDims + 1] < args.win_size
    /\ ret.kind = "ndarray"

(***************************************************************************)
(* C7: for a valid input with gridSize > 0 the number of returned rows is  *)
(* the product of the sizes of the per-dimension step-point sets, and the  *)
(* rows are the combinations of one step point per dimension, each once.   *)
(***************************************************************************)
StepSets ==
    StepsAlongEach(args.spatial_rank2, args.img_size, args.win_size, args.grid_size)

Combinations ==
    {c \in [1..NumCoordinateDims -> 0..MaxExtent] :
        \A k \in 1..NumCoordinateDims : c[k] \in Range(StepSets[k])}

CombinationOf(row) == [k \in 1..NumCoordinateDims |-> row[k]]

C7_CrossProductSize ==
    (ValidGenerateInput /\ ret # Pending) =>
        /\ ret.kind = "ndarray"
        /\ Len(ret.value) = Prod([k \in 1..NumCoordinateDims |-> Len(StepSets[k])])
        /\ {CombinationOf(ret.value[r]) : r \in 1..Len(ret.value)} = Combinations
        /\ \A r1, r2 \in 1..Len(ret.value) :
              CombinationOf(ret.value[r1]) = CombinationOf(ret.value[r2]) => r1 = r2

\* three dimensions, one of them auxiliary, each with several step points
C7_Witness ==
    /\ ValidGenerateInput
    /\ ret.kind = "ndarray"
    /\ args.spatial_rank2 = 5
    /\ \A k \in 1..NumCoordinateDims : Len(StepSets[k]) >= 2
    /\ Len(StepSets[1]) # Len(StepSets[2])
    /\ Len(ret.value) = Len(StepSets[1]) * Len(StepSets[2]) * Len(StepSets[3])

(***************************************************************************)
(* Vocabulary of the properties of the sampler.                            *)
(***************************************************************************)
SourceVolumes == volume_loader.volumes

NextCalls == volume_loader.cursor

\* the positions in `emitted` of the patches of volume v
EmissionsOf(v) == {k \in 1..Len(emitted) : emitted[k].idx = v}

EmittedFor(v) == Cardinality(EmissionsOf(v))

\* the CoordinateSet of volume v under the sampler's configuration
RawCoordinates(v) ==
    generate_grid_coordinates(
        sampler.spatial_rank2,
        match_volume_shape_to_patch_definition(SourceVolumes[v]),
        sampler.image_size, sampler.grid_size).value

RawCount(v) == Len(RawCoordinates(v))

\* n rounded up to the next multiple of b
PaddedTotal(n, b) == ((n + b - 1) \div b) * b

\* the for loop of volume v has run to its end
Completed(v) ==
    \/ v < idx
    \/ v = idx /\ pc \in {"while", "pull", "exhausted"}

\* the index, within its volume, of the k-th emission
IndexInVolume(k) ==
    k - 1 - Cardinality({m \in 1..Len(emitted) : emitted[m].idx < emitted[k].idx})

HasRank5(v) == Len(match_volume_shape_to_patch_definition(SourceVolumes[v])) = 5

(***************************************************************************)
(* C3: for a volume with n raw coordinates and batch size b the number of  *)
(* emitted samples, total, satisfies total mod b = 0, n <= total < n + b,  *)
(* and total = n iff n mod b = 0; with b = 1 total = n and no coordinate   *)
(* is emitted twice.  The count of a volume is taken when its for loop has *)
(* just ended and again when the generator has ended.                      *)
(***************************************************************************)
C3_BatchPadding ==
    \A v \in 1..NextCalls :
        (Completed(v) /\ pc \in {"while", "exhausted", "raised"}) =>
            LET total == EmittedFor(v)
                n == RawCount(v)
            IN  /\ n >= 1
                /\ total % batch_size = 0
                /\ total >= n
                /\ total < n + batch_size
                /\ (total = n) <=> (n % batch_size = 0)
                /\ batch_size = 1 =>
                      /\ total = n
                      /\ Cardinality({emitted[k].loc : k \in EmissionsOf(v)}) = total

\* a completed volume whose coordinates did not fill the last batch
C3_Witness ==
    \E v \in 1..NextCalls :
        /\ Completed(v)
        /\ RawCount(v) >= 2
        /\ RawCount(v) % batch_size # 0
        /\ EmittedFor(v) = RawCount(v) + batch_size - (RawCount(v) % batch_size)

(***************************************************************************)
(* C4: the i-th emission of a volume populates the Patch Sink once, before *)
(* the yield, with the volume's id and locations[i mod n]: the first n     *)
(* emissions carry locations[0..n-1] in order, the padded ones wrap round. *)
(* Each emission is examined at the suspension that follows it.            *)
(***************************************************************************)
C4_WrapAroundOrder ==
    /\ set_data_calls = Len(emitted) + (IF pc = "yield" THEN 1 ELSE 0)
    /\ pc = "yield" =>
          patch = [idx |-> idx, loc |-> locations.value[(i % n_patches) + 1]]
    /\ pc = "yielded" =>
          LET k == Len(emitted)
              locs == RawCoordinates(emitted[k].idx)
          IN  emitted[k] = [idx |-> idx,
                            loc |-> locs[(IndexInVolume(k) % Len(locs)) + 1]]

\* a padded emission past the first wrapped coordinate
C4_Witness ==
    /\ pc = "yielded"
    /\ n_patches >= 2
    /\ i = n_patches + 1
    /\ emitted[Len(emitted)] = [idx |-> idx, loc |-> locations.value[2]]
    /\ locations.value[2] # locations.value[n_patches]

(***************************************************************************)
(* C8: a pulled volume whose reconciled image data has rank 5 ends the     *)
(* generator with NotImplementedError before coordinates are generated or  *)
(* the Patch Sink is populated for it; no patch of it and no patch of a    *)
(* later volume is emitted, and no later volume is pulled.                 *)
(***************************************************************************)
C8_Rank5Rejection ==
    \A v \in 1..NextCalls :
        HasRank5(v) =>
            /\ NextCalls = v
            /\ pc \in {"match", "raised"}
            /\ pc = "raised" => (raised = "NotImplementedError" /\ ~ENABLED Next)
            /\ patch.idx # v
            /\ \A k \in 1..Len(emitted) : emitted[k].idx < v

\* rejected after a volume was sampled, with a later volume left in the source
C8_Witness ==
    /\ pc = "raised"
    /\ raised = "NotImplementedError"
    /\ HasRank5(idx)
    /\ NextCalls < Len(SourceVolumes)
    /\ ~HasRank5(NextCalls + 1)

\* rejected after an earlier volume was sampled in full
C8_WitnessAfterEmissions ==
    /\ pc = "raised"
    /\ raised = "NotImplementedError"
    /\ idx = 2
    /\ Len(emitted) > 0

(***************************************************************************)
(* C9: at every suspension point of the generator the number of next()     *)
(* calls on the Volume Source equals the number of volumes with at least   *)
(* one emission, and a volume is pulled only when every volume pulled      *)
(* before it has produced all of its total emissions.                      *)
(***************************************************************************)
C9_CursorOnlyForPulledVolumes ==
    /\ [](pc \in {"created", "yielded"} =>
            NextCalls = Cardinality({emitted[k].idx : k \in 1..Len(emitted)}))
    /\ [][volume_loader'.cursor # volume_loader.cursor =>
            \A v \in 1..NextCalls :
                EmittedFor(v) = PaddedTotal(RawCount(v), batch_size)]_vars

\* suspended in the middle of the second volume
C9_Witness ==
    /\ pc = "yielded"
    /\ NextCalls = 2
    /\ EmittedFor(1) > 0
    /\ EmittedFor(2) > 0
    /\ EmittedFor(2) < PaddedTotal(RawCount(2), batch_size)

(***************************************************************************)
(* C10: over a Volume Source of V valid volumes, with a consumer that      *)
(* keeps pulling, the sequence ends normally after exactly the sum of      *)
(* total_v emissions, volume by volume in source order, with exactly V     *)
(* next() calls; next() is called only when hasNext() holds.               *)
(***************************************************************************)
AllValid ==
    /\ sampler.grid_size > 0
    /\ \A v \in 1..Len(SourceVolumes) :
          /\ ~HasRank5(v)
          /\ SourceVolumes[v].size >= sampler.image_size

RECURSIVE SumTotals(_)
SumTotals(v) ==
    IF v = 0 THEN 0
    ELSE PaddedTotal(RawCount(v), batch_size) + SumTotals(v - 1)

NormalEnd ==
    /\ pc = "exhausted"
    /\ raised = "none"
    /\ NextCalls = Len(SourceVolumes)
    /\ Len(emitted) = SumTotals(Len(SourceVolumes))
    /\ \A v \in 1..Len(SourceVolumes) :
          EmittedFor(v) = PaddedTotal(RawCount(v), batch_size)
    /\ \A k, m \in 1..Len(emitted) : k <= m => emitted[k].idx <= emitted[m].idx

C10_FiniteSequence ==
    /\ AllValid => <>NormalEnd
    /\ [](AllValid => Len(emitted) <= SumTotals(Len(SourceVolumes)))
    /\ [][volume_loader'.cursor # volume_loader.cursor =>
            (pc = "pull" /\ has_next(volume_loader))]_vars

\* two valid volumes sampled to the end, the first one padded
C10_Witness ==
    /\ AllValid
    /\ NormalEnd
    /\ Len(SourceVolumes) = 2
    /\ EmittedFor(1) > RawCount(1)
    /\ EmittedFor(2) >= 2

(***************************************************************************)
(* C11: every returned row has spatial_rank * 2 columns; for each windowed *)
(* dimension d the start is in column d and the end in column              *)
(* d + numCoordinateDims, with end = start + windowSize, 0 <= start and    *)
(* end <= extent[d]; with a fractional spatialRank the raw index of the    *)
(* auxiliary dimension is in column numWindowedDims, which is neither a    *)
(* start nor an end column, and no end column holds it instead of its end. *)
(***************************************************************************)
AuxiliaryColumn == NumWindowedDims + 1

StartColumns == 1..NumWindowedDims

EndColumns == {d + NumCoordinateDims : d \in 1..NumWindowedDims}

C11_CoordinateLayout ==
    (IsGenerateReturn /\ ret.kind = "ndarray") =>
        \A r \in 1..Len(ret.value) :
            LET row == ret.value[r]
            IN  /\ Len(row) = args.spatial_rank2
                /\ \A d \in 1..NumWindowedDims :
                      /\ row[d] \in Range(StepSets[d])
                      /\ row[d + NumCoordinateDims] = row[d] + args.win_size
                      /\ 0 <= row[d]
                      /\ row[d + NumCoordinateDims] <= args.img_size[d]
                /\ HasAuxiliaryDim =>
                      /\ row[AuxiliaryColumn] \in Range(StepSets[AuxiliaryColumn])
                      /\ AuxiliaryColumn \notin StartColumns \cup EndColumns
                      /\ StartColumns \cup EndColumns \cup {AuxiliaryColumn}
                            = 1..args.spatial_rank2

\* a row of spatial_rank 2.5 whose auxiliary index differs from every end
C11_Witness ==
    /\ IsGenerateReturn
    /\ ret.kind = "ndarray"
    /\ args.spatial_rank2 = 5
    /\ \E r \in 1..Len(ret.value) :
          /\ ret.value[r][3] = 2
          /\ ret.value[r][1] = 1
          /\ ret.value[r][4] = 1 + args.win_size
          /\ ret.value[r][5] = ret.value[r][2] + args.win_size
          /\ ret.value[r][4] # 2

(***************************************************************************)
(* C12: with a fractional spatialRank and an auxiliary extent E >= 1, the  *)
(* auxiliary indices of the returned rows are exactly 0..E-1 whatever the  *)
(* configured gridSize and windowSize are; the Step Enumerator called on   *)
(* [0, E) with windowSize = 1 and stepSize = 1 returns 0, 1, ..., E-1 in   *)
(* ascending order.                                                        *)
(***************************************************************************)
AuxiliaryExtent == args.img_size[NumWindowedDims + 1]

AuxiliaryIndices == {ret.value[r][AuxiliaryColumn] : r \in 1..Len(ret.value)}

C12_AuxiliaryEveryIndex ==
    /\ (IsGenerateReturn /\ ret.kind = "ndarray" /\ HasAuxiliaryDim
            /\ AuxiliaryExtent >= 1)
          => AuxiliaryIndices = 0..(AuxiliaryExtent - 1)
    /\ (IsEnumerateReturn /\ args.win_size = 1 /\ args.grid_size = 1
            /\ args.img_size[1] >= 1)
          => ret.value = [k \in 1..args.img_size[1] |-> k - 1]

\* extent 3 enumerated 0, 1, 2 although the window is 2 wide and the step 3
C12_Witness ==
    /\ IsGenerateReturn
    /\ ret.kind = "ndarray"
    /\ args.spatial_rank2 = 3
    /\ args.win_size = 2
    /\ args.grid_size = 3
    /\ AuxiliaryExtent = 3
    /\ AuxiliaryIndices = {0, 1, 2}

(***************************************************************************)
(* C13 as stated: with gridSize <= 0 the sampler takes the None of the     *)
(* Coordinate Generator as "no coordinates": for volumes that pass the     *)
(* rank check, pulling raises no error and no patch is emitted.  The code  *)
(* reads locations.shape of None at line 113, so this is violated.         *)
(***************************************************************************)
NoRank5Pulled == \A v \in 1..NextCalls : ~HasRank5(v)

C13_DisabledSamplingBenign ==
    (sampler.grid_size <= 0 /\ NoRank5Pulled) =>
        /\ raised = "none"
        /\ pc # "raised"
        /\ emitted = <<>>

(***************************************************************************)
(* C14 as stated: for every input with gridSize > 0 that passes the extent *)
(* assertion, spatialRank 0 included, every per-dimension step-point set   *)
(* has at least one element and a CoordinateSet of n >= 1 rows is          *)
(* returned.                                                               *)
(***************************************************************************)
PassesExtentAssertion ==
    /\ IsGenerateReturn
    /\ args.grid_size > 0
    /\ ~SomeWindowTooLarge

NonEmptyCoordinateSet ==
    /\ \A k \in 1..NumCoordinateDims : Len(StepSets[k]) >= 1
    /\ ret.kind = "ndarray"
    /\ Len(ret.value) >= 1

C14_NonEmptyAnyRank == PassesExtentAssertion => NonEmptyCoordinateSet

(***************************************************************************)
(* C14 amended: for gridSize > 0, an input that passes the extent          *)
(* assertion and spatialRank >= 0.5 (an auxiliary dimension of extent 0    *)
(* and an auxiliary dimension alone included) every step-point set has at  *)
(* least one element and the CoordinateSet has n >= 1 rows; with           *)
(* spatialRank 0 there is no dimension and no CoordinateSet is returned.   *)
(***************************************************************************)
C14_NonEmptyPositiveRank ==
    /\ (PassesExtentAssertion /\ args.spatial_rank2 >= 1) => NonEmptyCoordinateSet
    /\ (PassesExtentAssertion /\ args.spatial_rank2 = 0) => ret.kind # "ndarray"

\* an auxiliary dimension of extent 0 alone: the forced point 0 is the one row
C14_Witness ==
    /\ PassesExtentAssertion
    /\ args.spatial_rank2 = 1
    /\ args.img_size[1] = 0
    /\ ret.kind = "ndarray"
    /\ Len(ret.value) = 1
    /\ ret.value[1] = <<0>>

(***************************************************************************)
(* In layer_op the index i % n_patches of line 125 is taken with           *)
(* n_patches >= 1 and lies in 0..n_patches-1.                              *)
(***************************************************************************)
SamplerIndexDefined ==
    pc \in {"for", "yield", "yielded"} =>
        /\ n_patches >= 1
        /\ n_patches = Len(locations.value)
        /\ (i % n_patches) \in 0..(n_patches - 1)

=============================================================================
